---- MODULE Spec2Model ----
(***************************************************************************)
(* Model of the two browser-driven video testers of this repository:       *)
(*   "stream" : video_test.py    (create_test_page, VideoStreamTest, main) *)
(*   "simple" : video_tester2.py (SimpleVideoTester, test_video)           *)
(* The browser is the environment: every driver call either returns a      *)
(* value drawn from a small set or raises.  A tester is run MaxRuns times  *)
(* in succession; the two files on disk survive from one run to the next.  *)
(* Playback times are counted in ticks of 1/TicksPerSec second.            *)
(***************************************************************************)
EXTENDS Integers, Sequences, FiniteSets

VARIABLES variant, run, pc, fixture, reportFile, driver, metrics_log,
          results, console, status, elapsed, video_ready, pollRaised,
          exc, escaped, ops

vars == <<variant, run, pc, fixture, reportFile, driver, metrics_log,
          results, console, status, elapsed, video_ready, pollRaised,
          exc, escaped, ops>>

\* ---- bounds of the model ----
MaxRuns == 2
MaxTime == 3
TicksPerSec == 1
MaxReadyState == 4

\* ---- constants of the programs ----
Timeout == 10
ReadyThreshold == 3
SeekTarget == 2
SeekTolerance == 1

Variants == {"stream", "simple"}
Times == 0..MaxTime
ReadyStates == 0..MaxReadyState
Statuses == [ready : BOOLEAN, readyState : ReadyStates, error : BOOLEAN]
DriverOps == {"get", "wait", "execute_script", "find_element",
              "find_elements", "click"}

Abs(x) == IF x < 0 THEN -x ELSE x

\* 'PASS' if b else 'FAIL'
PassFail(b) == IF b THEN "PASS" ELSE "FAIL"

\* ---- video_test.py ----

\* StreamMetrics built by collect_metrics from the page's answer; the
\* timestamp is abstracted to the name of the check that took the snapshot.
collect_metrics(t, check) ==
    [playback_time |-> t, timestamp |-> check]

\* variant of PlaybackOk: >= in place of >
PlaybackOk_ge(t) == t >= 0

\* test_playback_start: metrics.playback_time > 0
PlaybackOk(t) == t > 0

\* variant of SeekOk: <= in place of <
SeekOk_le(t) == Abs(t - SeekTarget * TicksPerSec) <= SeekTolerance * TicksPerSec

\* test_seek: abs(metrics.playback_time - 2) < 1
SeekOk(t) == Abs(t - SeekTarget * TicksPerSec) < SeekTolerance * TicksPerSec

\* the dict save_report dumps: url, timestamp, metrics_log and nothing else
StreamReport(r, log) ==
    [url |-> "file://test_video.html", timestamp |-> r, metrics_log |-> log]

\* ---- video_tester2.py ----

\* variant of PollResult: readiness tested before the error
PollResult_readyFirst(st) ==
    IF st.ready /\ st.readyState >= ReadyThreshold THEN "ready"
    ELSE IF st.error THEN "error"
    ELSE "sleep"

\* one iteration of the poll loop of wait_for_video_ready, after the script
\* returned st: the error is tested first, then readiness, else sleep
PollResult(st) ==
    IF st.error THEN "error"
    ELSE IF st.ready /\ st.readyState >= ReadyThreshold THEN "ready"
    ELSE "sleep"

LoadingEntry(ready) ==
    [name |-> "Video Loading", status |-> PassFail(ready)]

PropertiesEntry ==
    [name |-> "Video Properties", details |-> [error |-> "null"]]

PropertiesFailEntry ==
    [name |-> "Video Properties", status |-> "FAIL", error |-> "exception"]

PlaybackEntry(playing, t) ==
    [name |-> "Video Playback", status |-> PassFail(playing),
     details |-> [playing |-> playing, currentTime |-> t]]

PlaybackFailEntry ==
    [name |-> "Video Playback", status |-> "FAIL", error |-> "exception"]

SimpleReport(r, tests) == [timestamp |-> r, tests |-> tests]

\* test.get('status', 'See details')
StatusText(e) == IF "status" \in DOMAIN e THEN e.status ELSE "See details"

\* ---- reading a report file back (json.load) ----
FileTests(f) == IF "tests" \in DOMAIN f THEN f.tests ELSE <<>>

FilePairs(f) ==
    {<<FileTests(f)[i].name, FileTests(f)[i].status>> :
        i \in {j \in 1..Len(FileTests(f)) : "status" \in DOMAIN FileTests(f)[j]}}

ConsolePairs(c) ==
    {c[i] : i \in {j \in 1..Len(c) : c[j][2] \in {"PASS", "FAIL"}}}

NoStatus == [ready |-> FALSE, readyState |-> 0, error |-> FALSE]

Init ==
    /\ variant \in Variants
    /\ run = 1
    /\ pc = "start"
    /\ fixture = <<>>
    /\ reportFile = <<>>
    /\ driver = "none"
    /\ metrics_log = <<>>
    /\ results = <<>>
    /\ console = <<>>
    /\ status = NoStatus
    /\ elapsed = 0
    /\ video_ready = FALSE
    /\ pollRaised = FALSE
    /\ exc = "none"
    /\ escaped = "none"
    /\ ops = <<>>

waitVars == <<status, elapsed, video_ready, pollRaised>>

\* the driver calls a check issues when its k-th call raises (k = 0: none raises)
Issued(calls, k) == IF k = 0 THEN calls ELSE SubSeq(calls, 1, k)

\* ======================= video_test.py =======================

\* create_test_page: the fixed page is written over test_video.html
create_test_page ==
    /\ variant = "stream" /\ pc = "start"
    /\ fixture' = <<[by |-> run, content |-> "Video Test Page"]>>
    /\ pc' = "construct"
    /\ UNCHANGED <<variant, run, reportFile, driver, metrics_log, results,
                   console, waitVars, exc, escaped, ops>>

\* VideoStreamTest.__init__: webdriver.Chrome() is called before main's try,
\* so a failure to start the browser leaves main
VideoStreamTest_init ==
    /\ variant = "stream" /\ pc = "construct"
    /\ \/ /\ driver' = "open" /\ metrics_log' = <<>>
          /\ ops' = Append(ops, "create")
          /\ pc' = "setup" /\ UNCHANGED escaped
       \/ /\ escaped' = "chrome" /\ pc' = "done"
          /\ UNCHANGED <<driver, metrics_log, ops>>
    /\ UNCHANGED <<variant, run, fixture, reportFile, results, console,
                   waitVars, exc>>

SetupCalls == <<"get", "wait">>

\* setup: driver.get, then WebDriverWait(...).until(presence of video); either
\* may raise, into main's except
setup ==
    /\ variant = "stream" /\ pc = "setup"
    /\ \E k \in 0..Len(SetupCalls) :
          /\ ops' = ops \o Issued(SetupCalls, k)
          /\ exc' = IF k = 0 THEN "none" ELSE "driver"
          /\ pc' = IF k = 0 THEN "playback" ELSE "except"
    /\ UNCHANGED <<variant, run, fixture, reportFile, driver, metrics_log,
                   results, console, waitVars, escaped>>

PlaybackCalls == <<"execute_script", "execute_script">>

\* test_playback_start: play(), sleep, collect_metrics, append, compare;
\* any exception is caught and gives False
test_playback_start ==
    /\ variant = "stream" /\ pc = "playback"
    /\ \E k \in 0..Len(PlaybackCalls), t \in Times :
          /\ ops' = ops \o Issued(PlaybackCalls, k)
          /\ IF k = 0
             THEN /\ metrics_log' = Append(metrics_log, collect_metrics(t, "playback_test"))
                  /\ results' = Append(results, [name |-> "playback_test", result |-> PlaybackOk(t)])
             ELSE /\ metrics_log' = metrics_log
                  /\ results' = Append(results, [name |-> "playback_test", result |-> FALSE])
    /\ pc' = "quality"
    /\ UNCHANGED <<variant, run, fixture, reportFile, driver, console,
                   waitVars, exc, escaped>>

QualityCalls == <<"find_element", "click", "find_elements", "click", "execute_script">>

\* test_quality_switch: click the selector, click option [1], collect_metrics,
\* append, return True; short is the case where find_elements returned fewer
\* than two options (IndexError)
test_quality_switch ==
    /\ variant = "stream" /\ pc = "quality"
    /\ \E k \in 0..Len(QualityCalls), short \in BOOLEAN, t \in Times :
          /\ short => k = 0
          /\ ops' = ops \o (IF short THEN SubSeq(QualityCalls, 1, 3) ELSE Issued(QualityCalls, k))
          /\ IF k = 0 /\ ~short
             THEN /\ metrics_log' = Append(metrics_log, collect_metrics(t, "quality_test"))
                  /\ results' = Append(results, [name |-> "quality_test", result |-> TRUE])
             ELSE /\ metrics_log' = metrics_log
                  /\ results' = Append(results, [name |-> "quality_test", result |-> FALSE])
    /\ pc' = "seek"
    /\ UNCHANGED <<variant, run, fixture, reportFile, driver, console,
                   waitVars, exc, escaped>>

SeekCalls == <<"execute_script", "execute_script">>

\* test_seek: currentTime = 2, sleep, collect_metrics, append, compare
test_seek ==
    /\ variant = "stream" /\ pc = "seek"
    /\ \E k \in 0..Len(SeekCalls), t \in Times :
          /\ ops' = ops \o Issued(SeekCalls, k)
          /\ IF k = 0
             THEN /\ metrics_log' = Append(metrics_log, collect_metrics(t, "seek_test"))
                  /\ results' = Append(results, [name |-> "seek_test", result |-> SeekOk(t)])
             ELSE /\ metrics_log' = metrics_log
                  /\ results' = Append(results, [name |-> "seek_test", result |-> FALSE])
    /\ pc' = "save"
    /\ UNCHANGED <<variant, run, fixture, reportFile, driver, console,
                   waitVars, exc, escaped>>

\* save_report, called at the end of run_all_tests: open(filename, 'w') may
\* raise (the file is then untouched), into main's except
save_report ==
    /\ variant = "stream" /\ pc = "save"
    /\ \/ /\ reportFile' = <<StreamReport(run, metrics_log)>>
          /\ ops' = Append(ops, "write")
          /\ pc' = "print" /\ UNCHANGED exc
       \/ /\ exc' = "io" /\ pc' = "except"
          /\ UNCHANGED <<reportFile, ops>>
    /\ UNCHANGED <<variant, run, fixture, driver, metrics_log, results,
                   console, waitVars, escaped>>

\* main, after run_all_tests returned: one line per result
main_print ==
    /\ variant = "stream" /\ pc = "print"
    /\ console' = [i \in 1..Len(results) |->
                      <<results[i].name, PassFail(results[i].result)>>]
    /\ pc' = "finally"
    /\ UNCHANGED <<variant, run, fixture, reportFile, driver, metrics_log,
                   results, waitVars, exc, escaped, ops>>

\* main's except Exception: the error is printed and swallowed
main_except ==
    /\ variant = "stream" /\ pc = "except"
    /\ exc' = "none"
    /\ pc' = "finally"
    /\ UNCHANGED <<variant, run, fixture, reportFile, driver, metrics_log,
                   results, console, waitVars, escaped, ops>>

\* main's finally: tester.cleanup() -> driver.quit()
cleanup ==
    /\ variant = "stream" /\ pc = "finally"
    /\ driver' = "quit"
    /\ ops' = Append(ops, "quit")
    /\ pc' = "done"
    /\ UNCHANGED <<variant, run, fixture, reportFile, metrics_log, results,
                   console, waitVars, exc, escaped>>

\* ======================= video_tester2.py =======================

\* SimpleVideoTester.create_test_page: the template is written over
\* test_video.html
SimpleVideoTester_create_test_page ==
    /\ variant = "simple" /\ pc = "start"
    /\ fixture' = <<[by |-> run, content |-> "Video Tester"]>>
    /\ pc' = "construct"
    /\ UNCHANGED <<variant, run, reportFile, driver, metrics_log, results,
                   console, waitVars, exc, escaped, ops>>

\* run_test: driver = webdriver.Chrome(), before the try
run_test_Chrome ==
    /\ variant = "simple" /\ pc = "construct"
    /\ \/ /\ driver' = "open" /\ ops' = Append(ops, "create")
          /\ pc' = "get" /\ UNCHANGED escaped
       \/ /\ escaped' = "chrome" /\ pc' = "done"
          /\ UNCHANGED <<driver, ops>>
    /\ UNCHANGED <<variant, run, fixture, reportFile, metrics_log, results,
                   console, waitVars, exc>>

\* run_test: driver.get(...) inside try/finally (no except), then the empty
\* results dict
run_test_get ==
    /\ variant = "simple" /\ pc = "get"
    /\ ops' = Append(ops, "get")
    /\ \/ /\ results' = <<>> /\ pc' = "waitelem" /\ UNCHANGED exc
       \/ /\ exc' = "driver" /\ pc' = "finally" /\ UNCHANGED results
    /\ UNCHANGED <<variant, run, fixture, reportFile, driver, metrics_log,
                   console, waitVars, escaped>>

\* wait_for_video_ready, first part: WebDriverWait for the video element, then
\* start_time = time.time(); a raise is caught and gives False
wait_for_video_ready_element ==
    /\ variant = "simple" /\ pc = "waitelem"
    /\ ops' = Append(ops, "wait")
    /\ \/ /\ elapsed' = 0 /\ pc' = "poll"
          /\ UNCHANGED <<status, video_ready, pollRaised>>
       \/ /\ video_ready' = FALSE /\ pollRaised' = TRUE /\ pc' = "loading"
          /\ UNCHANGED <<status, elapsed>>
    /\ UNCHANGED <<variant, run, fixture, reportFile, driver, metrics_log,
                   results, console, exc, escaped>>

\* wait_for_video_ready, one iteration of the while loop entered with
\* time.time() - start_time < timeout: execute_script (may raise), the two
\* tests of PollResult, time.sleep(1), and the loop test that follows; leaving
\* the loop raises the timeout exception, caught like the others
wait_for_video_ready_poll ==
    /\ variant = "simple" /\ pc = "poll" /\ elapsed < Timeout
    /\ ops' = Append(ops, "execute_script")
    /\ \/ /\ video_ready' = FALSE /\ pollRaised' = TRUE /\ pc' = "loading"
          /\ UNCHANGED <<status, elapsed>>
       \/ \E st \in Statuses :
             /\ status' = st
             /\ pollRaised' = FALSE
             /\ CASE PollResult(st) = "error" ->
                       video_ready' = FALSE /\ pc' = "loading" /\ UNCHANGED elapsed
                  [] PollResult(st) = "ready" ->
                       video_ready' = TRUE /\ pc' = "loading" /\ UNCHANGED elapsed
                  [] OTHER ->
                       /\ elapsed' = elapsed + 1
                       /\ video_ready' = FALSE
                       /\ pc' = IF elapsed + 1 < Timeout THEN "poll" ELSE "loading"
    /\ UNCHANGED <<variant, run, fixture, reportFile, driver, metrics_log,
                   results, console, exc, escaped>>

\* variant of run_test_loading: the later checks are not gated on video_ready
run_test_loading_ungated ==
    /\ variant = "simple" /\ pc = "loading"
    /\ results' = Append(results, LoadingEntry(video_ready))
    /\ pc' = "props"
    /\ UNCHANGED <<variant, run, fixture, reportFile, driver, metrics_log,
                   console, waitVars, exc, escaped, ops>>

\* run_test: the 'Video Loading' entry and the if video_ready: gate
run_test_loading ==
    /\ variant = "simple" /\ pc = "loading"
    /\ results' = Append(results, LoadingEntry(video_ready))
    /\ pc' = IF video_ready THEN "props" ELSE "save"
    /\ UNCHANGED <<variant, run, fixture, reportFile, driver, metrics_log,
                   console, waitVars, exc, escaped, ops>>

\* variant of run_test_properties: a raising script leaves no entry
run_test_properties_noentry ==
    /\ variant = "simple" /\ pc = "props"
    /\ ops' = Append(ops, "execute_script")
    /\ \/ results' = Append(results, PropertiesEntry)
       \/ results' = results
    /\ pc' = "play"
    /\ UNCHANGED <<variant, run, fixture, reportFile, driver, metrics_log,
                   console, waitVars, exc, escaped>>

\* run_test: the properties script; its entry has no status unless it raised
run_test_properties ==
    /\ variant = "simple" /\ pc = "props"
    /\ ops' = Append(ops, "execute_script")
    /\ \/ results' = Append(results, PropertiesEntry)
       \/ results' = Append(results, PropertiesFailEntry)
    /\ pc' = "play"
    /\ UNCHANGED <<variant, run, fixture, reportFile, driver, metrics_log,
                   console, waitVars, exc, escaped>>

\* run_test: play(), sleep, the playback-state script; PASS iff not paused
run_test_playback ==
    /\ variant = "simple" /\ pc = "play"
    /\ \E k \in 0..Len(PlaybackCalls), playing \in BOOLEAN, t \in Times :
          /\ ops' = ops \o Issued(PlaybackCalls, k)
          /\ results' = Append(results, IF k = 0 THEN PlaybackEntry(playing, t)
                                                 ELSE PlaybackFailEntry)
    /\ pc' = "save"
    /\ UNCHANGED <<variant, run, fixture, reportFile, driver, metrics_log,
                   console, waitVars, exc, escaped>>

\* run_test: open('video_test_results.json', 'w') and json.dump; open may
\* raise (the file is then untouched)
run_test_save ==
    /\ variant = "simple" /\ pc = "save"
    /\ \/ /\ reportFile' = <<SimpleReport(run, results)>>
          /\ ops' = Append(ops, "write")
          /\ UNCHANGED exc
       \/ /\ exc' = "io" /\ UNCHANGED <<reportFile, ops>>
    /\ pc' = "finally"
    /\ UNCHANGED <<variant, run, fixture, driver, metrics_log, results,
                   console, waitVars, escaped>>

\* variant of run_test_finally: quit after the try block, not in a finally
run_test_finally_noquit ==
    /\ variant = "simple" /\ pc = "finally"
    /\ driver' = IF exc = "none" THEN "quit" ELSE driver
    /\ ops' = IF exc = "none" THEN Append(ops, "quit") ELSE ops
    /\ escaped' = exc
    /\ pc' = IF exc = "none" THEN "print" ELSE "done"
    /\ UNCHANGED <<variant, run, fixture, reportFile, metrics_log, results,
                   console, waitVars, exc>>

\* run_test: finally: driver.quit(); a pending exception then leaves
\* run_test and test_video, which have no except clause
run_test_finally ==
    /\ variant = "simple" /\ pc = "finally"
    /\ driver' = "quit"
    /\ ops' = Append(ops, "quit")
    /\ escaped' = exc
    /\ pc' = IF exc = "none" THEN "print" ELSE "done"
    /\ UNCHANGED <<variant, run, fixture, reportFile, metrics_log, results,
                   console, waitVars, exc>>

\* test_video: one line per entry of results["tests"]
test_video_print ==
    /\ variant = "simple" /\ pc = "print"
    /\ console' = [i \in 1..Len(results) |->
                      <<results[i].name, StatusText(results[i])>>]
    /\ pc' = "done"
    /\ UNCHANGED <<variant, run, fixture, reportFile, driver, metrics_log,
                   results, waitVars, exc, escaped, ops>>

\* ======================= running again =======================

\* the script is started again: a new process and a new tester object; only
\* the files on disk remain
NextRun ==
    /\ pc = "done" /\ run < MaxRuns
    /\ run' = run + 1
    /\ pc' = "start"
    /\ driver' = "none"
    /\ metrics_log' = <<>>
    /\ results' = <<>>
    /\ console' = <<>>
    /\ status' = NoStatus
    /\ elapsed' = 0
    /\ video_ready' = FALSE
    /\ pollRaised' = FALSE
    /\ exc' = "none"
    /\ escaped' = "none"
    /\ ops' = <<>>
    /\ UNCHANGED <<variant, fixture, reportFile>>

Next ==
    \/ create_test_page
    \/ VideoStreamTest_init
    \/ setup
    \/ test_playback_start
    \/ test_quality_switch
    \/ test_seek
    \/ save_report
    \/ main_print
    \/ main_except
    \/ cleanup
    \/ SimpleVideoTester_create_test_page
    \/ run_test_Chrome
    \/ run_test_get
    \/ wait_for_video_ready_element
    \/ wait_for_video_ready_poll
    \/ run_test_loading
    \/ run_test_properties
    \/ run_test_playback
    \/ run_test_save
    \/ run_test_finally
    \/ test_video_print
    \/ NextRun

Spec == Init /\ [][Next]_vars

\* the programs are sequential and every step returns: a run never stalls
FairSpec == Spec /\ WF_vars(Next)

\* ======================= properties =======================

NumChecks == 3

Count(seq, x) == Cardinality({i \in 1..Len(seq) : seq[i] = x})
Created == Count(ops, "create") > 0
Wrote == Count(ops, "write") > 0

\* the metrics_log entries taken by a check
EntriesOf(check) ==
    {i \in 1..Len(metrics_log) : metrics_log[i].timestamp = check}

\* the 'Video Playback' entries of run_test that carry a playback state
PlaybackStates ==
    {i \in 1..Len(results) :
        /\ variant = "simple"
        /\ results[i].name = "Video Playback"
        /\ "details" \in DOMAIN results[i]}

\* what the last poll of wait_for_video_ready saw of a broken source: a media
\* error, or no readiness until the timeout
SourceBroken == status.error \/ elapsed >= Timeout

C2_BrokenSourceFails ==
    (variant = "simple" /\ Len(results) >= 1 /\ SourceBroken) =>
        /\ results[1].name = "Video Loading"
        /\ results[1].status = "FAIL"
        /\ \A i \in 2..Len(results) : StatusText(results[i]) # "PASS"

C2_Witness ==
    /\ variant = "simple" /\ pc = "done" /\ Wrote
    /\ status.error /\ status.ready /\ status.readyState = MaxReadyState
    /\ results[1].status = "FAIL"

\* C3: test_seek returns True exactly when it recorded a StreamMetrics entry
\* whose playback_time lies strictly between 1.0 s and 3.0 s.
C3_SeekIffWithinTolerance ==
    (variant = "stream" /\ Len(results) = 3) =>
        (results[3].result <=>
            \E i \in EntriesOf("seek_test") :
                /\ 1 * TicksPerSec < metrics_log[i].playback_time
                /\ metrics_log[i].playback_time < 3 * TicksPerSec)

C3_Witness ==
    /\ variant = "stream" /\ Len(results) = 3 /\ results[3].result
    /\ pc = "done" /\ EntriesOf("seek_test") # {}

\* C4 as stated: a PASS of the playback check implies a recorded playback
\* time strictly greater than 0, in test_playback_start and in run_test alike.
C4_PassImpliesPositiveTime ==
    /\ (variant = "stream" /\ Len(results) >= 1 /\ results[1].result) =>
          \E i \in EntriesOf("playback_test") : metrics_log[i].playback_time > 0
    /\ \A i \in PlaybackStates :
          results[i].status = "PASS" => results[i].details.currentTime > 0

\* C4 amended: test_playback_start returning True implies an appended entry
\* with playback_time > 0; a PASS 'Video Playback' entry of run_test implies
\* only that the recorded playing flag is true.
C4_PassImpliesPlaying ==
    /\ (variant = "stream" /\ Len(results) >= 1 /\ results[1].result) =>
          \E i \in EntriesOf("playback_test") : metrics_log[i].playback_time > 0
    /\ \A i \in PlaybackStates :
          results[i].status = "PASS" => results[i].details.playing

C4_Witness ==
    /\ variant = "stream" /\ Len(results) = 3 /\ results[1].result
    /\ \E i \in EntriesOf("playback_test") : metrics_log[i].playback_time > 0

\* C5: reading the written report back gives exactly the (name, status) pairs
\* printed on the console, and the file holds no other test entry.
C5_ReportRoundTrip ==
    (pc = "done" /\ Wrote) =>
        /\ FilePairs(reportFile[1]) = ConsolePairs(console)
        /\ \A i \in 1..Len(FileTests(reportFile[1])) :
              "status" \in DOMAIN FileTests(reportFile[1])[i]

\* C6: after a second run whose browser session was created, whatever its
\* outcome, neither the fixture nor the report file holds content of the
\* first run.
C6_SecondRunOverwrites ==
    (run >= 2 /\ pc = "done" /\ Created) =>
        /\ fixture # <<>> /\ fixture[1].by = run
        /\ reportFile # <<>> => reportFile[1].timestamp = run

\* C7: once the browser session exists the run ends with exactly one
\* driver.quit(), no driver call follows the quit, and the quit is reached
\* on every path.
C7_Safety ==
    /\ (pc = "done" /\ Created) => Count(ops, "quit") = 1
    /\ Count(ops, "quit") <= 1
    /\ \A i \in 1..Len(ops) : \A j \in 1..Len(ops) :
          (i < j /\ ops[i] = "quit") => ops[j] \notin DriverOps
    /\ driver = "quit" <=> Count(ops, "quit") = 1

C7_QuitExactlyOnce == [](C7_Safety) /\ (Created ~> (driver = "quit"))

C7_Witness ==
    /\ pc = "done" /\ escaped = "driver" /\ driver = "quit"
    /\ Count(ops, "quit") = 1

\* C8: a check whose driver call raises is recorded as FAIL and the checks
\* after it still run; no exception of a driver call leaves the runner.
C8_ErrorsContained ==
    /\ escaped # "driver"
    /\ (variant = "simple" /\ pollRaised /\ Wrote) => Len(results) = NumChecks

\* C9: wait_for_video_ready returns after at most Timeout polls; True only on
\* a poll without error that saw the ready flag and readyState >= 3; False on
\* an error (even with readiness in the same poll), a raise or the timeout.
C9_Safety ==
    (variant = "simple" /\ pc \in {"poll", "loading"}) =>
        /\ Count(ops, "execute_script") <= Timeout
        /\ pc = "loading" =>
              /\ video_ready =>
                    /\ ~pollRaised /\ ~status.error
                    /\ status.ready /\ status.readyState >= 3
              /\ (status.error \/ pollRaised \/ elapsed >= Timeout) => ~video_ready

C9_WaitTerminates ==
    [](C9_Safety) /\ ((variant = "simple" /\ pc = "waitelem") ~> (pc = "loading"))

C9_Witness ==
    /\ variant = "simple" /\ pc = "loading"
    /\ status.error /\ status.ready /\ status.readyState >= 3
    /\ ~video_ready

\* C10: a run whose browser session was created writes its report exactly
\* once, after every check, and always reaches the write.
C10_ReportWrittenOnce ==
    /\ (pc = "done" /\ Created) => Count(ops, "write") = 1
    /\ \A i \in 1..Len(ops) : \A j \in 1..Len(ops) :
          (i < j /\ ops[i] = "write") => ops[j] \notin DriverOps

====
